---- MODULE Spec2Model ----
(***************************************************************************)
(* A model of glio's callback-driven training loop (train/cbs_default.py)  *)
(* and of the helpers of torch_tools.py: to_device, smart_detach,          *)
(* smart_to_cpu, smart_detach_cpu, one_batch, Trainer, lr_finder_fn,       *)
(* lr_finder, seeded_rng, seed0_worker; and of jupyter_tools.py.           *)
(*                                                                         *)
(* The Learner class itself (its event dispatch, learner.event and         *)
(* learner.context) is not among the sources; its dispatch is modelled     *)
(* from the specification: "a dispatch table mapping event names to        *)
(* callback objects".                                                      *)
(***************************************************************************)
EXTENDS Integers, Sequences, FiniteSets, TLC

\* ------------------------------------------------------------------ bounds
\* how many values epochs_iterator yields at most
MaxEpochs == 2
\* how many batches a data loader holds at most
MaxBatches == 2

\* the values epochs_iterator may yield, and the values of test_every
EpochValues == {0, 1}
TestEveryValues == {0, 1, 2}
\* how many of the learners of LearnerSeq call fit where the callbacks are
\* replaced or raise
MaxLearners == 4

VARIABLES
    \* ---- the learner and the arguments of fit
    reg,          \* the dispatch table: event name -> "default" or a replacement
    entry,        \* the event the user dispatched, or the function they called
    dls,          \* dltrain, dltest: [given, n] (None, or a loader of n batches)
    test_first,
    test_every,
    scheduler,    \* learner.scheduler is not None
    accelerator,  \* learner.accelerator is not None
    model_has_train,  \* learner.model has a callable train
    model_has_eval,   \* learner.model has a callable eval
    opt_has_train,    \* learner.optimizer has a callable train
    opt_has_eval,     \* learner.optimizer has a callable eval
    cur_epoch,    \* learner.cur_epoch
    cur_batch,    \* learner.cur_batch
    total_epoch,  \* learner.total_epoch
    preds,        \* learner.preds
    stack,        \* the call stack of callbacks, the running one last
    exc,          \* the exception in flight, NoExc when none
    raised,       \* the exception first raised in this run (history)
    status,       \* "running" | "returned" | "raised"
    log,          \* every event dispatched and framework call made (history)
    \* ---- lr_finder and lr_finder_fn
    args,         \* the arguments of the call
    opt,          \* the optimizer's param_groups' lr, and the model's weights
    lrf,          \* the locals of lr_finder, lr_finder_fn and the Trainer
    \* ---- to_device, smart_detach, smart_to_cpu, smart_detach_cpu
    tfn,          \* the function called
    tx,           \* its argument x
    tdev,         \* the device argument of to_device
    tres,         \* what it returned
    tdone,        \* it has returned
    \* ---- seeded_rng
    seed,         \* the seed argument
    block,        \* the block run under seeded_rng: its draws and seed0_worker calls
    runs,         \* two executions of the block: generators, saved states, draws
    \* ---- is_jupyter, isnotebook, markdown_if_jupyter
    jup           \* the call: its environment, argument, position, result

learnerVars == <<reg, entry, dls, test_first, test_every, scheduler, accelerator,
                 model_has_train, model_has_eval, opt_has_train, opt_has_eval,
                 cur_epoch, cur_batch, total_epoch, preds, stack, exc, raised,
                 status, log>>

lrVars == <<args, opt, lrf>>
tensorVars == <<tfn, tx, tdev, tres, tdone>>
rngVars == <<seed, block, runs>>
jupyterVars == <<jup>>

\* what the callbacks of the training loop never touch
notLearner == <<lrVars, tensorVars, rngVars, jupyterVars>>
\* what lr_finder and lr_finder_fn never touch
notLr == <<reg, dls, test_first, test_every, scheduler, accelerator,
           model_has_train, model_has_eval, opt_has_train, opt_has_eval, cur_epoch,
           cur_batch, total_epoch, preds, log, tensorVars, rngVars,
           jupyterVars>>

vars == <<learnerVars, lrVars, tensorVars, rngVars, jupyterVars>>

\* ------------------------------------------------------------ the learner
LeafEvents == {"train", "eval", "forward", "get_loss", "zero_grad", "backward",
               "optimizer_step", "scheduler_step"}
LoopEvents == {"one_batch", "one_epoch"}
Events == LeafEvents \cup LoopEvents

AllDefault == [e \in Events |-> "default"]
\* what a replaced callback, which is user-supplied logic, does when its event
\* is dispatched: it returns and dispatches nothing, it dispatches an event of
\* its own and returns, or it raises
Replacements == {"silent", "dispatching", "raising"}
\* the default callbacks, with at most one event's callback replaced
Registries == {AllDefault} \cup
              {[AllDefault EXCEPT ![e] = r] : e \in Events, r \in Replacements}

NoExc == "none"
Exceptions == {"Exception", "KeyboardInterrupt"}

\* a data loader argument that is None
NoLoader == [given |-> FALSE, n |-> 0]
NoBatch == [dl |-> "none", idx |-> 0]
Batch(dl, i) == [dl |-> dl, idx |-> i]
\* model(inputs): the predictions of a batch
ModelOut(b) == [of |-> b]
NoPreds == ModelOut(NoBatch)

Frame(fn, pc, dl, idx, train) ==
    [fn |-> fn, pc |-> pc, dl |-> dl, idx |-> idx, train |-> train]

Top == stack[Len(stack)]
Pop == SubSeq(stack, 1, Len(stack) - 1)
SetPc(pc) == [stack EXCEPT ![Len(stack)].pc = pc]
Running == status = "running" /\ exc = NoExc /\ stack # <<>>
At(fn, pc) == Running /\ Top.fn = fn /\ Top.pc = pc

\* a log entry: an event dispatched through the learner, or a call of the
\* framework (model, loss function, optimizer, scheduler, tensor); d is the
\* depth of the callback that made it
Event(name, d, x) == [k |-> "event", n |-> name, d |-> d, x |-> x]
Call(name, d, x) == [k |-> "call", n |-> name, d |-> d, x |-> x]

\* what the replacement registered for ev puts in the log, run at depth d
Replacement(ev, d) ==
    IF reg[ev] = "dispatching" THEN <<Event("user_event", d, <<>>)>> ELSE <<>>

\* learner.<event>(...): the learner looks the event up in its dispatch table
\* and runs the callback registered for it: the default callback, whose log
\* entries are body, or the replacement
Dispatch(ev, x, body) ==
    <<Event(ev, Len(stack), x)>> \o
    (IF reg[ev] = "default" THEN body ELSE Replacement(ev, Len(stack) + 1))

\* one of the events dispatched runs a replacement that raises
ReplacementRaises(entries) ==
    \E j \in 1..Len(entries) :
        /\ entries[j].k = "event"
        /\ entries[j].n \in Events
        /\ reg[entries[j].n] = "raising"

\* learner.event(name): a plain event, no default callback is registered for it
Notify(name) == Event(name, Len(stack), <<cur_epoch>>)

\* ---- the default callbacks of the leaf events: the framework calls they make
DefaultForwardCB(d, inputs, grad) == <<Call("model", d, <<inputs, grad>>)>>
DefaultGetLossCB(d, p, targets) == <<Call("loss_fn", d, <<p, targets>>)>>
DefaultBackwardCB(d) ==
    IF accelerator THEN <<Call("accelerator.backward", d, <<>>)>>
    ELSE <<Call("loss.backward", d, <<>>)>>
DefaultOptimizerStepCB(d) == <<Call("optimizer.step", d, <<>>)>>
DefaultZeroGradCB(d) == <<Call("optimizer.zero_grad", d, <<>>)>>
DefaultSchedulerStepCB(d) ==
    IF scheduler THEN <<Call("scheduler.step", d, <<>>)>> ELSE <<>>
\* model.train() and optimizer.train(), each if the object has a callable of
\* that name (a torch module has it, a torch optimizer has not, a schedule-free
\* one has)
DefaultTrainCB(d) ==
    (IF model_has_train THEN <<Call("model.train", d, <<>>)>> ELSE <<>>) \o
    (IF opt_has_train THEN <<Call("optimizer.train", d, <<>>)>> ELSE <<>>)
\* model.eval() and optimizer.eval(), each if the object has a callable eval
DefaultEvalCB(d) ==
    (IF model_has_eval THEN <<Call("model.eval", d, <<>>)>> ELSE <<>>) \o
    (IF opt_has_eval THEN <<Call("optimizer.eval", d, <<>>)>> ELSE <<>>)

\* the frame of a callback returns to its caller
Return ==
    /\ stack' = Pop
    /\ status' = IF Len(stack) = 1 THEN "returned" ELSE status

\* one step of a callback that dispatches a leaf event and goes on at pc
\* (or the exception of a replacement that raises is in flight)
LeafStep(entries, pc) ==
    /\ log' = log \o entries
    /\ IF ReplacementRaises(entries)
       THEN /\ stack' = stack
            /\ \E e \in Exceptions :
                 /\ exc' = e
                 /\ raised' = e
       ELSE /\ stack' = SetPc(pc)
            /\ UNCHANGED <<exc, raised>>
    /\ UNCHANGED <<notLearner, reg, entry, dls, test_first, test_every, scheduler, accelerator,
                   model_has_train, model_has_eval, opt_has_train, opt_has_eval,
                   cur_epoch, cur_batch, total_epoch, status>>

\* one step of a callback that dispatches one_epoch or one_batch: the caller
\* goes on as frame `caller`, the default callback runs as frame `callee`; a
\* replacement has returned, or its exception is in flight
LoopStep(ev, x, callee, caller) ==
    /\ log' = log \o Dispatch(ev, x, <<>>)
    /\ stack' = IF reg[ev] = "default" THEN Pop \o <<caller, callee>>
                ELSE IF reg[ev] = "raising" THEN stack
                ELSE Pop \o <<caller>>
    /\ IF reg[ev] = "raising"
       THEN \E e \in Exceptions :
              /\ exc' = e
              /\ raised' = e
       ELSE UNCHANGED <<exc, raised>>
    /\ UNCHANGED <<notLearner, reg, entry, dls, test_first, test_every, scheduler, accelerator,
                   model_has_train, model_has_eval, opt_has_train, opt_has_eval,
                   cur_epoch, total_epoch, preds, status>>

\* the arguments a callback passes with a leaf event it dispatches
LeafArgs(ev) ==
    CASE ev = "forward" -> <<Batch(Top.dl, Top.idx)>>
      [] ev = "get_loss" -> <<preds, Batch(Top.dl, Top.idx)>>
      [] OTHER -> <<>>

\* what the running callback does itself before it dispatches the event
BeforeDispatch(ev) ==
    IF Top.fn = "inference" /\ ev = "forward"
    THEN <<Call("ensure_device", Len(stack), <<>>)>>
    ELSE <<>>

\* ---- DefaultOneBatchCB
OneBatchTrain ==
    /\ At("one_batch", "train")
    /\ LeafStep(Dispatch("train", <<>>, DefaultTrainCB(Len(stack) + 1)), "to_device")
    /\ UNCHANGED preds

OneBatchToDevice ==
    /\ At("one_batch", "to_device")
    /\ LeafStep(IF accelerator THEN <<>>
                ELSE <<Call("inputs.to", Len(stack), <<>>),
                       Call("targets.to", Len(stack), <<>>)>>, "forward")
    /\ UNCHANGED preds

\* mutant: one_batch calls the model itself instead of dispatching forward
OneBatchForward_CallsModel ==
    /\ At("one_batch", "forward")
    /\ LET inputs == Batch(Top.dl, Top.idx) IN
       /\ LeafStep(DefaultForwardCB(Len(stack), inputs, Top.train), "get_loss")
       /\ preds' = ModelOut(inputs)

OneBatchForward ==
    /\ At("one_batch", "forward")
    /\ LET inputs == Batch(Top.dl, Top.idx) IN
       /\ LeafStep(Dispatch("forward", LeafArgs("forward"),
                            DefaultForwardCB(Len(stack) + 1, inputs, Top.train)),
                   "get_loss")
       /\ preds' = IF reg["forward"] = "default" THEN ModelOut(inputs) ELSE preds

\* mutant: the backprop events are dispatched whatever the train flag
OneBatchGetLoss_AlwaysBackprop ==
    /\ At("one_batch", "get_loss")
    /\ LET targets == Batch(Top.dl, Top.idx) IN
       LeafStep(Dispatch("get_loss", LeafArgs("get_loss"),
                         DefaultGetLossCB(Len(stack) + 1, preds, targets)),
                "zero_grad")
    /\ UNCHANGED preds

OneBatchGetLoss ==
    /\ At("one_batch", "get_loss")
    /\ LET targets == Batch(Top.dl, Top.idx) IN
       LeafStep(Dispatch("get_loss", LeafArgs("get_loss"),
                         DefaultGetLossCB(Len(stack) + 1, preds, targets)),
                IF Top.train THEN "zero_grad" ELSE "return")
    /\ UNCHANGED preds

OneBatchZeroGrad ==
    /\ At("one_batch", "zero_grad")
    /\ LeafStep(Dispatch("zero_grad", <<>>, DefaultZeroGradCB(Len(stack) + 1)),
                "backward")
    /\ UNCHANGED preds

OneBatchBackward ==
    /\ At("one_batch", "backward")
    /\ LeafStep(Dispatch("backward", <<>>, DefaultBackwardCB(Len(stack) + 1)),
                "optimizer_step")
    /\ UNCHANGED preds

OneBatchOptimizerStep ==
    /\ At("one_batch", "optimizer_step")
    /\ LeafStep(Dispatch("optimizer_step", <<>>, DefaultOptimizerStepCB(Len(stack) + 1)),
                "scheduler_step")
    /\ UNCHANGED preds

OneBatchSchedulerStep ==
    /\ At("one_batch", "scheduler_step")
    /\ LeafStep(Dispatch("scheduler_step", <<>>, DefaultSchedulerStepCB(Len(stack) + 1)),
                "return")
    /\ UNCHANGED preds

OneBatchReturn ==
    /\ At("one_batch", "return")
    /\ Return
    /\ UNCHANGED <<notLearner, reg, entry, dls, test_first, test_every, scheduler, accelerator,
                   model_has_train, model_has_eval, opt_has_train, opt_has_eval,
                   cur_epoch, cur_batch, total_epoch, preds, exc, raised, log>>

\* ---- DefaultInferenceCB
InferenceEval ==
    /\ At("inference", "eval")
    /\ LeafStep(Dispatch("eval", <<>>, DefaultEvalCB(Len(stack) + 1)), "forward")
    /\ UNCHANGED preds

InferenceForward ==
    /\ At("inference", "forward")
    /\ LET batch == Batch(Top.dl, Top.idx) IN
       /\ LeafStep(BeforeDispatch("forward") \o
                   Dispatch("forward", LeafArgs("forward"),
                            DefaultForwardCB(Len(stack) + 1, batch, FALSE)),
                   "return")
       /\ preds' = IF reg["forward"] = "default" THEN ModelOut(batch) ELSE preds

InferenceReturn ==
    /\ At("inference", "return")
    /\ \E to_cpu \in BOOLEAN :
         log' = Append(log, Call(IF to_cpu THEN "ensure_detach_cpu" ELSE "ensure_detach",
                                 Len(stack), <<>>))
    /\ Return
    /\ UNCHANGED <<notLearner, reg, entry, dls, test_first, test_every, scheduler, accelerator,
                   model_has_train, model_has_eval, opt_has_train, opt_has_eval,
                   cur_epoch, cur_batch, total_epoch, preds, exc, raised>>

\* mutant: the loop counts the batches in a local, learner.cur_batch is not set
OneEpochBatch_KeepsCurBatch ==
    /\ At("one_epoch", "for")
    /\ Top.idx < dls[Top.dl].n
    /\ cur_batch' = cur_batch
    /\ LoopStep("one_batch", <<Batch(Top.dl, Top.idx), Top.train>>,
                Frame("one_batch", "train", Top.dl, Top.idx, Top.train),
                [Top EXCEPT !.idx = Top.idx + 1])

\* ---- DefaultOneEpochCB: for learner.cur_batch, (inputs, targets) in enumerate(dl)
OneEpochBatch ==
    /\ At("one_epoch", "for")
    /\ Top.idx < dls[Top.dl].n
    /\ cur_batch' = Top.idx
    /\ LoopStep("one_batch", <<Batch(Top.dl, Top.idx), Top.train>>,
                Frame("one_batch", "train", Top.dl, Top.idx, Top.train),
                [Top EXCEPT !.idx = Top.idx + 1])

OneEpochReturn ==
    /\ At("one_epoch", "for")
    /\ Top.idx >= dls[Top.dl].n
    /\ Return
    /\ UNCHANGED <<notLearner, reg, entry, dls, test_first, test_every, scheduler, accelerator,
                   model_has_train, model_has_eval, opt_has_train, opt_has_eval,
                   cur_epoch, cur_batch, total_epoch, preds, exc, raised, log>>

\* ---- DefaultFitCB
\* how many values epochs_iterator has yielded
Yielded == Len(SelectSeq(log, LAMBDA e : e.n = "before_epoch"))

\* a step of the body of fit that dispatches nothing
FitSkip(pc) ==
    /\ stack' = SetPc(pc)
    /\ UNCHANGED <<notLearner, reg, entry, dls, test_first, test_every, scheduler, accelerator,
                   model_has_train, model_has_eval, opt_has_train, opt_has_eval,
                   cur_epoch, cur_batch, total_epoch, preds, exc, raised, status, log>>

\* for learner.cur_epoch in epochs_iterator: the iterator yields v
FitForNext ==
    /\ At("fit", "for")
    /\ Yielded < MaxEpochs
    /\ \E v \in EpochValues : cur_epoch' = v
    /\ stack' = SetPc("before_epoch")
    /\ UNCHANGED <<notLearner, reg, entry, dls, test_first, test_every, scheduler, accelerator,
                   model_has_train, model_has_eval, opt_has_train, opt_has_eval,
                   cur_batch, total_epoch, preds, exc, raised, status, log>>

\* the iterator is exhausted: fit returns
FitForStop ==
    /\ At("fit", "for")
    /\ Return
    /\ UNCHANGED <<notLearner, reg, entry, dls, test_first, test_every, scheduler, accelerator,
                   model_has_train, model_has_eval, opt_has_train, opt_has_eval,
                   cur_epoch, cur_batch, total_epoch, preds, exc, raised, log>>

FitBeforeEpoch ==
    /\ At("fit", "before_epoch")
    /\ LeafStep(<<Notify("before_epoch")>>, "enter")
    /\ UNCHANGED preds

\* with learner.context("full_epoch"):
FitEnterContext ==
    /\ At("fit", "enter")
    /\ LeafStep(<<Event("enter full_epoch", Len(stack), <<cur_epoch>>)>>, "test_first")
    /\ UNCHANGED preds

FitTestFirst ==
    /\ At("fit", "test_first")
    /\ IF cur_epoch = 0 /\ test_first /\ dls["dltest"].given
       THEN /\ LoopStep("one_epoch", <<"dltest", FALSE>>,
                        Frame("one_epoch", "for", "dltest", 0, FALSE),
                        [Top EXCEPT !.pc = "training"])
            /\ UNCHANGED cur_batch
       ELSE FitSkip("training")

FitTraining ==
    /\ At("fit", "training")
    /\ IF dls["dltrain"].given
       THEN /\ LoopStep("one_epoch", <<"dltrain", TRUE>>,
                        Frame("one_epoch", "for", "dltrain", 0, TRUE),
                        [Top EXCEPT !.pc = "testing"])
            /\ UNCHANGED cur_batch
       ELSE FitSkip("testing")

\* mutant: the test runs after every training epoch, test_every is not read
FitTesting_EveryEpoch ==
    /\ At("fit", "testing")
    /\ IF dls["dltest"].given
       THEN /\ LoopStep("one_epoch", <<"dltest", FALSE>>,
                        Frame("one_epoch", "for", "dltest", 0, FALSE),
                        [Top EXCEPT !.pc = "total_epoch"])
            /\ UNCHANGED cur_batch
       ELSE FitSkip("total_epoch")

\* dltest is not None and learner.cur_epoch % test_every == 0
FitTesting ==
    /\ At("fit", "testing")
    /\ ~(dls["dltest"].given /\ test_every = 0)
    /\ IF dls["dltest"].given /\ cur_epoch % test_every = 0
       THEN /\ LoopStep("one_epoch", <<"dltest", FALSE>>,
                        Frame("one_epoch", "for", "dltest", 0, FALSE),
                        [Top EXCEPT !.pc = "total_epoch"])
            /\ UNCHANGED cur_batch
       ELSE FitSkip("total_epoch")

\* cur_epoch % 0 raises ZeroDivisionError
FitTestingZeroDivision ==
    /\ At("fit", "testing")
    /\ dls["dltest"].given /\ test_every = 0
    /\ exc' = "ZeroDivisionError"
    /\ raised' = "ZeroDivisionError"
    /\ UNCHANGED <<notLearner, reg, entry, dls, test_first, test_every, scheduler, accelerator,
                   model_has_train, model_has_eval, opt_has_train, opt_has_eval,
                   cur_epoch, cur_batch, total_epoch, preds, stack, status, log>>

FitTotalEpoch ==
    /\ At("fit", "total_epoch")
    /\ total_epoch' = total_epoch + 1
    /\ stack' = SetPc("exit")
    /\ UNCHANGED <<notLearner, reg, entry, dls, test_first, test_every, scheduler, accelerator,
                   model_has_train, model_has_eval, opt_has_train, opt_has_eval,
                   cur_epoch, cur_batch, preds, exc, raised, status, log>>

FitExitContext ==
    /\ At("fit", "exit")
    /\ LeafStep(<<Event("exit full_epoch", Len(stack), <<cur_epoch>>)>>, "after_epoch")
    /\ UNCHANGED preds

\* mutant: the iteration ends without dispatching after_epoch
FitAfterEpoch_NotDispatched ==
    /\ At("fit", "after_epoch")
    /\ LeafStep(<<>>, "for")
    /\ UNCHANGED preds

FitAfterEpoch ==
    /\ At("fit", "after_epoch")
    /\ LeafStep(<<Notify("after_epoch")>>, "for")
    /\ UNCHANGED preds

\* ---- exceptions
\* the framework calls the default callback of leaf event ev makes when the
\* running callback dispatches it
LeafCalls(ev) ==
    LET d == Len(stack) + 1
        batch == Batch(Top.dl, Top.idx)
    IN  CASE ev = "train" -> DefaultTrainCB(d)
          [] ev = "eval" -> DefaultEvalCB(d)
          [] ev = "forward" ->
               DefaultForwardCB(d, batch, Top.fn = "one_batch" /\ Top.train)
          [] ev = "get_loss" -> DefaultGetLossCB(d, preds, batch)
          [] ev = "zero_grad" -> DefaultZeroGradCB(d)
          [] ev = "backward" -> DefaultBackwardCB(d)
          [] ev = "optimizer_step" -> DefaultOptimizerStepCB(d)
          [] ev = "scheduler_step" -> DefaultSchedulerStepCB(d)

\* the events whose default callback calls the framework
CallsFramework(ev) ==
    /\ ev \in LeafEvents
    /\ reg[ev] = "default"
    /\ LeafCalls(ev) # <<>>

\* a framework call of a default leaf callback raises: the event was
\* dispatched, the calls of the callback before it returned, it does not
FrameworkRaises ==
    /\ Running
    /\ Top.fn \in {"one_batch", "inference"}
    /\ CallsFramework(Top.pc)
    /\ \E e \in Exceptions :
         /\ exc' = e
         /\ raised' = e
    /\ \E k \in 0..(Len(LeafCalls(Top.pc)) - 1) :
         log' = log \o BeforeDispatch(Top.pc) \o
                <<Event(Top.pc, Len(stack), LeafArgs(Top.pc))>> \o
                SubSeq(LeafCalls(Top.pc), 1, k)
    /\ UNCHANGED <<notLearner, reg, entry, dls, test_first, test_every, scheduler, accelerator,
                   model_has_train, model_has_eval, opt_has_train, opt_has_eval,
                   cur_epoch, cur_batch, total_epoch, preds, stack, status>>

\* the calls a loop callback makes itself, outside the dispatch, where it is
\* now: inputs.to and targets.to of one_batch, ensure_device and ensure_detach
\* (or ensure_detach_cpu, with to_cpu) of inference and the exit of its
\* torch.no_grad() block, the data loader of one_epoch and the unpacking of the
\* batch it yields, the epochs_iterator of fit
OwnCalls(frame, to_cpu) ==
    CASE frame.fn = "one_batch" /\ frame.pc = "to_device" /\ ~accelerator ->
             <<Call("inputs.to", Len(stack), <<>>), Call("targets.to", Len(stack), <<>>)>>
      [] frame.fn = "inference" /\ frame.pc = "forward" ->
             <<Call("ensure_device", Len(stack), <<>>)>>
      [] frame.fn = "inference" /\ frame.pc = "return" ->
             <<Call(IF to_cpu THEN "ensure_detach_cpu" ELSE "ensure_detach",
                    Len(stack), <<>>),
               Call("no_grad.__exit__", Len(stack), <<>>)>>
      [] frame.fn = "one_epoch" /\ frame.pc = "for" ->
             <<Call("next(dl)", Len(stack), <<>>)>> \o
             (IF frame.idx < dls[frame.dl].n
              THEN <<Call("unpack", Len(stack), <<>>)>> ELSE <<>>)
      [] frame.fn = "fit" /\ frame.pc = "for" ->
             <<Call("next(epochs_iterator)", Len(stack), <<>>)>>
      [] OTHER -> <<>>

\* one of them raises: the calls before it returned, it does not. The for
\* statement of one_epoch has stored learner.cur_batch when the unpacking of
\* the batch raises (that of fit stores learner.cur_epoch in FitForNext, and
\* what raises after it is the body)
CallbackRaises ==
    /\ Running
    /\ OwnCalls(Top, FALSE) # <<>>
    /\ \E e \in Exceptions :
         /\ exc' = e
         /\ raised' = e
    /\ \E to_cpu \in BOOLEAN, k \in 0..(Len(OwnCalls(Top, FALSE)) - 1) :
         /\ log' = log \o SubSeq(OwnCalls(Top, to_cpu), 1, k)
         /\ cur_batch' = IF Top.fn = "one_epoch" /\ k >= 1 THEN Top.idx ELSE cur_batch
    /\ UNCHANGED <<notLearner, reg, entry, dls, test_first, test_every, scheduler, accelerator,
                   model_has_train, model_has_eval, opt_has_train, opt_has_eval,
                   cur_epoch, total_epoch, preds, stack, status>>

\* the plain events and the context of the body of fit, where fit is now
PlainEvents(frame) ==
    CASE frame.pc = "before_epoch" -> <<Notify("before_epoch")>>
      [] frame.pc = "enter" -> <<Event("enter full_epoch", Len(stack), <<cur_epoch>>)>>
      [] frame.pc = "exit" -> <<Event("exit full_epoch", Len(stack), <<cur_epoch>>)>>
      [] frame.pc = "after_epoch" -> <<Notify("after_epoch")>>
      [] OTHER -> <<>>

\* what the learner runs for a plain event or for the context raises, in the
\* body of fit: learner.cur_epoch is stored, the event was dispatched
EventRaises ==
    /\ Running
    /\ Top.fn = "fit"
    /\ PlainEvents(Top) # <<>>
    /\ \E e \in Exceptions :
         /\ exc' = e
         /\ raised' = e
    /\ log' = log \o PlainEvents(Top)
    /\ UNCHANGED <<notLearner, reg, entry, dls, test_first, test_every, scheduler, accelerator,
                   model_has_train, model_has_eval, opt_has_train, opt_has_eval,
                   cur_epoch, cur_batch, total_epoch, preds, stack, status>>

\* lr_finder is inside its try: in the for loop, before, in or after the call
\* of lr_finder_fn
InTry(frame) == frame.fn = "lr_finder" /\ frame.pc \in {"for", "in_try"}

\* mutant: a bare `except:` around the iterations of lr_finder
Catches_BareExcept(frame, e) == InTry(frame)

\* try: ... except KeyboardInterrupt: pass, around the iterations of lr_finder
Catches(frame, e) == InTry(frame) /\ e = "KeyboardInterrupt"

\* no callback, nor lr_finder_fn, has a try/except: an exception ends the
\* running call and goes on to its caller, and out of the entry call to the user
Unwind ==
    /\ status = "running"
    /\ exc # NoExc
    /\ stack # <<>>
    /\ ~Catches(Top, exc)
    /\ stack' = Pop
    /\ status' = IF Len(stack) = 1 THEN "raised" ELSE status
    /\ UNCHANGED <<notLearner, reg, entry, dls, test_first, test_every, scheduler,
                   accelerator, model_has_train, model_has_eval, opt_has_train,
                   opt_has_eval, cur_epoch, cur_batch, total_epoch, preds, exc,
                   raised, log>>

\* ------------------------------------------------- lr_finder, lr_finder_fn
\* how many batches one run of lr_finder_fn takes at most
MaxLrBatches == 2
\* niter at most
MaxIter == 2
\* float("inf")
Inf == 1000
LossValues == {0, 1, 3}

None == [some |-> FALSE, v |-> 0]
Some(v) == [some |-> TRUE, v |-> v]

\* the arguments of lr_finder; model_state_dict and optimizer_state_dict say
\* whether the object passed has an attribute state_dict; try_copy is what
\* python_tools.try_copy does with a value that is no tensor: it returns a
\* copy or the same object
LrArgs == [start : {1, 2}, mul : {2}, add : {0}, end : {None, Some(3)},
           max_increase : {None, Some(2)}, niter : 0..MaxIter,
           return_best : BOOLEAN, model_state_dict : BOOLEAN,
           optimizer_state_dict : BOOLEAN, try_copy : {"copy", "same"}]

Min(s) == CHOOSE m \in {s[j] : j \in 1..Len(s)} : \A j \in 1..Len(s) : m <= s[j]

\* get_lr, set_lr, change_lr on optimizer.param_groups
get_lr(o) == o.lrs[1]
set_lr(o, lr) == [o EXCEPT !.lrs = [g \in 1..Len(o.lrs) |-> lr]]
change_lr(o, mul, add) ==
    [o EXCEPT !.lrs = [g \in 1..Len(o.lrs) |-> o.lrs[g] * mul + add]]

\* set_lr and change_lr, interrupted after the first k parameter groups
set_lr_first(o, lr, k) ==
    [o EXCEPT !.lrs = [g \in 1..Len(o.lrs) |-> IF g <= k THEN lr ELSE o.lrs[g]]]
change_lr_first(o, mul, add, k) ==
    [o EXCEPT !.lrs = [g \in 1..Len(o.lrs) |->
                          IF g <= k THEN o.lrs[g] * mul + add ELSE o.lrs[g]]]

\* a value held in a copied state dict: own says whether it is an object of
\* its own, holding v, or the live object itself
\* v.detach().clone(): a new tensor with the values of v
clone(v) == [own |-> TRUE, v |-> v]
\* try_copy(v): a copy of v, or v itself
try_copy(v, how) == [own |-> how = "copy", v |-> v]
\* copy_state_dict: every tensor is cloned, every other value goes through
\* try_copy (a nested dict is copied entry by entry in the same way)
copy_state_dict(v, tensor, how) == IF tensor THEN clone(v) ELSE try_copy(v, how)
\* what a held value reads as, live being the live object's value now
Value(c, live) == IF c.own THEN c.v ELSE live

\* BackupModule(obj) if hasattr(obj, "state_dict") else None: the state dict of
\* the model is its tensors, that of the optimizer its param_groups
NoModelBackup == [some |-> FALSE, v |-> clone(0)]
NoOptimizerBackup == [some |-> FALSE, v |-> clone(<<>>)]
BackupModel ==
    IF args.model_state_dict
    THEN Some(copy_state_dict(opt.weights, TRUE, args.try_copy))
    ELSE NoModelBackup
BackupOptimizer ==
    IF args.optimizer_state_dict
    THEN Some(copy_state_dict(opt.lrs, FALSE, args.try_copy))
    ELSE NoOptimizerBackup
\* if backup is not None: backup.restore(), which loads a copy of the held
\* state dict into the live object
restore(backup, live) == IF backup.some THEN Value(backup.v, live) ELSE live

NoOptimizer == [lrs |-> <<>>, weights |-> 0]

IdleLrf == [before |-> NoOptimizer, lrs |-> <<>>, losses |-> <<>>, batches |-> 0,
            iter |-> 0, iter_lrs |-> <<>>, iter_losses |-> <<>>,
            model_backup |-> NoModelBackup, optimizer_backup |-> NoOptimizerBackup,
            lowest_loss |-> Inf, best_model |-> "None",
            t_lowest |-> Inf, t_best |-> "None",
            try_exit |-> "none"]

LrStep(pc) ==
    /\ stack' = SetPc(pc)
    /\ UNCHANGED <<notLr, entry, args, exc, raised, status>>

LrRaise(e) ==
    /\ exc' = e
    /\ raised' = IF raised = NoExc THEN e ELSE raised
    /\ UNCHANGED <<notLr, entry, args, stack, status>>

\* lr_finder, lines 273-278: the lists and the best model so far, then the
\* try is entered
LrFinderBegin ==
    /\ At("lr_finder", "begin")
    /\ lrf' = [lrf EXCEPT !.try_exit = "inside"]
    /\ LrStep("for")
    /\ UNCHANGED opt

\* an interrupt before the try is entered
LrFinderBeginRaises ==
    /\ At("lr_finder", "begin")
    /\ \E e \in Exceptions : LrRaise(e)
    /\ UNCHANGED <<opt, lrf>>

\* Trainer(model, ..., save_best = return_best) reads model.state_dict() when
\* save_best is set
TrainerRaises == args.return_best /\ ~args.model_state_dict

\* lr_finder: one iteration of `for _ in range(niter)`, up to the call of
\* lr_finder_fn: the backups, model.train(), the Trainer
LrFinderIter ==
    /\ At("lr_finder", "for")
    /\ lrf.iter < args.niter
    /\ ~TrainerRaises
    /\ lrf' = [lrf EXCEPT !.model_backup = BackupModel,
                          !.optimizer_backup = BackupOptimizer,
                          !.t_lowest = Inf,
                          !.t_best = IF args.return_best THEN "live" ELSE "None",
                          !.lrs = <<>>, !.losses = <<>>]
    /\ stack' = Pop \o <<[Top EXCEPT !.pc = "in_try"],
                         Frame("lr_finder_fn", "set_lr", "none", 0, FALSE)>>
    /\ UNCHANGED <<notLr, entry, args, opt, exc, raised, status>>

\* lr_finder raises in the for statement or before it calls lr_finder_fn,
\* having run the lines before line `upto` + 1:
\*   279  nothing: an interrupt in `for _ in range(niter)`, whether or not
\*        range(niter) has another value
\*   280  nothing: BackupModule(model) raises
\*   281  the model is backed up; BackupModule(optimizer) raises
\*   282  the optimizer is backed up as well; model.train() or Trainer(...)
\*        raises (AttributeError when Trainer is to save the best model of a
\*        model without state_dict)
\*   284  the trainer is the new one
LrFinderIterRaises ==
    /\ At("lr_finder", "for")
    /\ \E upto \in {279, 280, 281, 282, 284} :
         /\ upto >= 280 => lrf.iter < args.niter
         /\ upto >= 284 => ~TrainerRaises
         /\ lrf' = [lrf EXCEPT
                      !.model_backup = IF upto >= 281 THEN BackupModel
                                       ELSE lrf.model_backup,
                      !.optimizer_backup = IF upto >= 282 THEN BackupOptimizer
                                           ELSE lrf.optimizer_backup,
                      !.t_lowest = IF upto >= 284 THEN Inf ELSE lrf.t_lowest,
                      !.t_best = IF upto >= 284
                                 THEN (IF args.return_best THEN "live" ELSE "None")
                                 ELSE lrf.t_best]
         /\ \E e \in Exceptions \cup {"AttributeError"} :
              /\ e = "AttributeError" => (upto = 282 /\ TrainerRaises)
              /\ LrRaise(e)
    /\ UNCHANGED opt

\* range(niter) is exhausted
LrFinderIterDone ==
    /\ At("lr_finder", "for")
    /\ lrf.iter >= args.niter
    /\ lrf' = [lrf EXCEPT !.try_exit = "done"]
    /\ LrStep("finish")
    /\ UNCHANGED opt

\* lr_finder_fn, lines 227-230: set_lr(optimizer, start)
LrFnSetLr ==
    /\ At("lr_finder_fn", "set_lr")
    /\ opt' = set_lr(opt, args.start)
    /\ LrStep("check")
    /\ UNCHANGED lrf

\* an interrupt in lines 227-230: before set_lr, inside its loop after the
\* first k parameter groups were set, or after it
LrFnSetLrRaises ==
    /\ At("lr_finder_fn", "set_lr")
    /\ \E k \in 0..Len(opt.lrs) : opt' = set_lr_first(opt, args.start, k)
    /\ \E e \in Exceptions : LrRaise(e)
    /\ UNCHANGED lrf

\* if end is None and max_increase is None: raise ValueError
LrFnCheck ==
    /\ At("lr_finder_fn", "check")
    /\ IF ~args.end.some /\ ~args.max_increase.some
       THEN LrRaise("ValueError")
       ELSE LrStep("loop")
    /\ UNCHANGED <<opt, lrf>>

\* loss/min(losses) > max_increase, for losses >= 0 with min(losses) > 0
Increased(loss, losses, max_increase) == loss > max_increase * Min(losses)

\* one batch of the loop of lr_finder_fn: one_batch_fn (Trainer.one_batch, which
\* keeps the lowest loss when save_best) returns a loss; the lr is recorded and
\* changed and the stopping criteria are read
LrFnBatch ==
    /\ At("lr_finder_fn", "loop")
    /\ lrf.batches < MaxLrBatches
    /\ \E loss \in LossValues :
         LET losses == Append(lrf.losses, loss)
             changed == change_lr(opt, args.mul, args.add)
             past_end == args.end.some /\ get_lr(changed) > args.end.v
             best == args.return_best /\ loss < lrf.t_lowest
         IN  /\ past_end \/ ~args.max_increase.some \/ Min(losses) # 0
             /\ opt' = [changed EXCEPT !.weights = opt.weights + 1]
             /\ lrf' = [lrf EXCEPT !.lrs = Append(lrf.lrs, get_lr(opt)),
                                   !.losses = losses,
                                   !.batches = lrf.batches + 1,
                                   !.t_lowest = IF best THEN loss ELSE lrf.t_lowest,
                                   !.t_best = IF best THEN "live" ELSE lrf.t_best]
             /\ LrStep(IF past_end \/ (args.max_increase.some /\
                                       Increased(loss, losses, args.max_increase.v))
                       THEN "return" ELSE "loop")

\* loss/min(losses) with min(losses) = 0 raises ZeroDivisionError, after the
\* batch ran (Trainer.one_batch noted its loss), the lr was recorded and changed
LrFnZeroDivision ==
    /\ At("lr_finder_fn", "loop")
    /\ lrf.batches < MaxLrBatches
    /\ \E loss \in LossValues :
         LET losses == Append(lrf.losses, loss)
             changed == change_lr(opt, args.mul, args.add)
             past_end == args.end.some /\ get_lr(changed) > args.end.v
             best == args.return_best /\ loss < lrf.t_lowest
         IN  /\ ~past_end /\ args.max_increase.some /\ Min(losses) = 0
             /\ opt' = [changed EXCEPT !.weights = opt.weights + 1]
             /\ lrf' = [lrf EXCEPT !.lrs = Append(lrf.lrs, get_lr(opt)),
                                   !.losses = losses,
                                   !.batches = lrf.batches + 1,
                                   !.t_lowest = IF best THEN loss ELSE lrf.t_lowest,
                                   !.t_best = IF best THEN "live" ELSE lrf.t_best]
             /\ LrRaise("ZeroDivisionError")

\* where a batch of lr_finder_fn may raise (a framework call fails, print
\* fails, the user interrupts), in the order the code reaches them:
\*   1  in Trainer.one_batch before optimizer.step() returned
\*   2  after optimizer.step(), up to loss.cpu() of Trainer.one_batch
\*   3  after Trainer.one_batch noted the loss, up to lrs.append
\*   4  after lrs.append, before losses.append
\*   5  after losses.append, before change_lr changed a group
\*   6  in change_lr, after it changed the first k groups and not the last
\*   7  after change_lr: in print, or reading the criteria
RaisePoints == 1..7

\* the batch raises: neither Trainer.one_batch nor lr_finder_fn has a
\* try/except, and what the batch did before the raise stays done
LrFnBatchRaises ==
    /\ At("lr_finder_fn", "loop")
    /\ lrf.batches < MaxLrBatches
    /\ \E e \in Exceptions : LrRaise(e)
    /\ \E at \in RaisePoints, loss \in LossValues, k \in 0..Len(opt.lrs) :
         LET best == at >= 3 /\ args.return_best /\ loss < lrf.t_lowest
         IN  /\ k = (IF at <= 5 THEN 0 ELSE IF at = 7 THEN Len(opt.lrs) ELSE k)
             /\ at = 6 => k \in 1..(Len(opt.lrs) - 1)
             /\ opt' = [change_lr_first(opt, args.mul, args.add, k) EXCEPT
                          !.weights = IF at >= 2 THEN opt.weights + 1 ELSE opt.weights]
             /\ lrf' = [lrf EXCEPT !.batches = lrf.batches + 1,
                                   !.t_lowest = IF best THEN loss ELSE lrf.t_lowest,
                                   !.t_best = IF best THEN "live" ELSE lrf.t_best,
                                   !.lrs = IF at >= 4 THEN Append(lrf.lrs, get_lr(opt))
                                           ELSE lrf.lrs,
                                   !.losses = IF at >= 5 THEN Append(lrf.losses, loss)
                                              ELSE lrf.losses]

\* return lrs, losses
LrFnReturn ==
    /\ At("lr_finder_fn", "return")
    /\ Return
    /\ UNCHANGED <<notLr, entry, args, opt, lrf, exc, raised>>

\* lr_finder_fn raises after its loop: in plotting, or interrupted
LrFnReturnRaises ==
    /\ At("lr_finder_fn", "return")
    /\ \E e \in Exceptions : LrRaise(e)
    /\ UNCHANGED <<opt, lrf>>

\* lines 298-304 of lr_finder, as far as line `upto`: the losses of the
\* iteration are kept (298), then its learning rates (299), then the lowest
\* loss of the trainer is noted (303), then its best model (304)
Kept(upto) ==
    LET better == args.return_best /\ lrf.t_lowest < lrf.lowest_loss
    IN  [lrf EXCEPT
           !.iter_losses = IF upto >= 298
                           THEN Append(lrf.iter_losses,
                                       SubSeq(lrf.losses, 1, Len(lrf.losses) - 1))
                           ELSE lrf.iter_losses,
           !.iter_lrs = IF upto >= 299
                        THEN Append(lrf.iter_lrs, SubSeq(lrf.lrs, 1, Len(lrf.lrs) - 1))
                        ELSE lrf.iter_lrs,
           !.lowest_loss = IF upto >= 303 /\ better THEN lrf.t_lowest
                           ELSE lrf.lowest_loss,
           !.best_model = IF upto >= 304 /\ better THEN lrf.t_best
                          ELSE lrf.best_model]

\* mutant: the backups are not restored
LrFinderAfterFn_NoRestore ==
    /\ At("lr_finder", "in_try")
    /\ lrf' = [Kept(304) EXCEPT !.iter = lrf.iter + 1, !.batches = 0]
    /\ UNCHANGED opt
    /\ LrStep("for")

\* lr_finder, after lr_finder_fn returned: the results are kept, the best
\* model noted, and the model and the optimizer that have a backup restored
\* from it
LrFinderAfterFn ==
    /\ At("lr_finder", "in_try")
    /\ lrf' = [Kept(304) EXCEPT !.iter = lrf.iter + 1, !.batches = 0]
    /\ opt' = [lrs |-> restore(lrf.optimizer_backup, opt.lrs),
               weights |-> restore(lrf.model_backup, opt.weights)]
    /\ LrStep("for")

\* lr_finder raises after lr_finder_fn returned, having run the lines before
\* line `upto` + 1:
\*   297  nothing is kept
\*   298  the losses are kept, the learning rates are not
\*   299  both are kept, the best model is not noted
\*   303  the lowest loss is noted, the best model is not
\*   304  both are noted; model_backup.restore() raises
\*   306  the model is restored; optimizer_backup.restore() raises
\*   307  the optimizer is restored as well; print raises
LrFinderAfterFnRaises ==
    /\ At("lr_finder", "in_try")
    /\ \E e \in Exceptions : LrRaise(e)
    /\ \E upto \in {297, 298, 299, 303, 304, 306, 307} :
         /\ lrf' = Kept(upto)
         /\ opt' = [lrs |-> IF upto >= 307 THEN restore(lrf.optimizer_backup, opt.lrs)
                            ELSE opt.lrs,
                    weights |-> IF upto >= 306 THEN restore(lrf.model_backup, opt.weights)
                                ELSE opt.weights]

\* except KeyboardInterrupt: pass
LrFinderCatch ==
    /\ status = "running" /\ stack # <<>>
    /\ exc # NoExc
    /\ Catches(Top, exc)
    /\ exc' = NoExc
    /\ lrf' = [lrf EXCEPT !.try_exit = "caught"]
    /\ stack' = SetPc("finish")
    /\ UNCHANGED <<notLr, entry, args, opt, raised, status>>

\* lr_finder, after the try: the averages; with return_best
\* model.load_state_dict(best_model), which raises TypeError for None, or
\* AttributeError on a model that has no such method
LrFinderFinish ==
    /\ At("lr_finder", "finish")
    /\ IF args.return_best /\ lrf.best_model = "None"
       THEN \E e \in {"TypeError", "AttributeError"} :
              /\ e = "AttributeError" => ~args.model_state_dict
              /\ LrRaise(e)
       ELSE /\ Return
            /\ UNCHANGED <<notLr, entry, args, exc, raised>>
    /\ UNCHANGED <<opt, lrf>>

\* lr_finder raises after the try: in print of line 314, in plotting, in
\* model.load_state_dict; no except clause is around these
LrFinderFinishRaises ==
    /\ At("lr_finder", "finish")
    /\ \E e \in Exceptions : LrRaise(e)
    /\ UNCHANGED <<opt, lrf>>

\* ---- one_batch(model, inputs, targets, loss_fn, optimizer, scheduler, device,
\* train): the calls it makes, in order
TorchOneBatchCalls(train) ==
    LET d == Len(stack)
    IN  <<Call("to_device", d, <<>>), Call("model", d, <<>>),
          Call("to_device", d, <<>>), Call("loss_fn", d, <<>>)>> \o
        (IF train
         THEN <<Call("optimizer.zero_grad", d, <<>>), Call("loss.backward", d, <<>>),
                Call("optimizer.step", d, <<>>)>> \o
              (IF scheduler THEN <<Call("scheduler.step", d, <<>>)>> ELSE <<>>)
         ELSE <<>>)

\* what one_batch leaves alone
notOneBatch == <<reg, entry, dls, test_first, test_every, scheduler, accelerator,
                 model_has_train, model_has_eval, opt_has_train, opt_has_eval,
                 cur_epoch, cur_batch, total_epoch, preds, args, lrf, tensorVars,
                 rngVars, jupyterVars>>

\* one_batch returns loss, preds; with train the optimizer has made a step
TorchOneBatch ==
    /\ At("torch_tools.one_batch", "call")
    /\ log' = log \o TorchOneBatchCalls(Top.train)
    /\ opt' = [opt EXCEPT !.weights = IF Top.train THEN opt.weights + 1
                                      ELSE opt.weights]
    /\ Return
    /\ UNCHANGED <<notOneBatch, exc, raised>>

\* one of its calls raises: the calls before it returned, it does not; or it
\* is interrupted after the last of them returned
TorchOneBatchRaises ==
    /\ At("torch_tools.one_batch", "call")
    /\ \E e \in Exceptions :
         /\ exc' = e
         /\ raised' = e
    /\ \E k \in 0..Len(TorchOneBatchCalls(Top.train)) :
         LET done == SubSeq(TorchOneBatchCalls(Top.train), 1, k)
             stepped == \E j \in 1..k : done[j].n = "optimizer.step"
         IN  /\ log' = log \o done
             /\ opt' = [opt EXCEPT !.weights = IF stepped THEN opt.weights + 1
                                               ELSE opt.weights]
    /\ UNCHANGED <<notOneBatch, stack, status>>

NextLr ==
    \/ LrFinderBegin \/ LrFinderBeginRaises \/ LrFinderIter \/ LrFinderIterRaises
    \/ LrFinderIterDone \/ LrFnSetLr \/ LrFnSetLrRaises \/ LrFnCheck \/ LrFnBatch
    \/ LrFnZeroDivision \/ LrFnBatchRaises \/ LrFnReturn \/ LrFnReturnRaises
    \/ LrFinderAfterFn \/ LrFinderAfterFnRaises \/ LrFinderCatch
    \/ LrFinderFinish \/ LrFinderFinishRaises \/ TorchOneBatch
    \/ TorchOneBatchRaises

Optimizers == {[lrs |-> <<5>>, weights |-> 0], [lrs |-> <<5, 7>>, weights |-> 0]}

NoLrArgs == [start |-> 1, mul |-> 2, add |-> 0, end |-> None, max_increase |-> None,
             niter |-> 0, return_best |-> FALSE, model_state_dict |-> TRUE,
             optimizer_state_dict |-> TRUE, try_copy |-> "copy"]

IdleLr ==
    /\ args = NoLrArgs
    /\ opt = NoOptimizer
    /\ lrf = IdleLrf

IdleLearner ==
    /\ reg = AllDefault
    /\ dls = [d \in {"dltrain", "dltest"} |-> NoLoader]
    /\ test_first = FALSE
    /\ test_every = 1
    /\ accelerator = FALSE
    /\ model_has_train = TRUE
    /\ model_has_eval = TRUE
    /\ opt_has_train = FALSE
    /\ opt_has_eval = FALSE
    /\ cur_epoch = 0
    /\ cur_batch = 0
    /\ total_epoch = 0
    /\ preds = NoPreds
    /\ log = <<>>

\* ------------------ to_device, smart_detach, smart_to_cpu, smart_detach_cpu
\* how many nodes (tensors, other objects, lists, tuples) an argument has at most
MaxNodes == 4

Devices == {"cpu", "cuda"}
NoDevice == "None"

\* a tensor on a device, attached to the gradient graph or not; an object that
\* is neither a tensor nor a list or tuple; a list or a tuple of such values
Tensor(dev, grad) == [t |-> "tensor", dev |-> dev, grad |-> grad, items |-> <<>>]
Other == [t |-> "other", dev |-> "-", grad |-> FALSE, items |-> <<>>]
Container(kind, items) == [t |-> kind, dev |-> "-", grad |-> FALSE, items |-> items]
List(items) == Container("list", items)

Leaves == {Tensor(d, g) : d \in Devices, g \in BOOLEAN} \cup {Other}

RECURSIVE Trees(_), Forests(_)
\* the values of exactly n nodes, and the sequences of values of m nodes in all
Trees(n) ==
    (IF n = 1 THEN Leaves ELSE {}) \cup
    {Container(k, f) : k \in {"list", "tuple"}, f \in Forests(n - 1)}
Forests(m) ==
    IF m = 0 THEN {<<>>}
    ELSE UNION {{<<t>> \o f : t \in Trees(k), f \in Forests(m - k)} : k \in 1..m}

Values == UNION {Trees(n) : n \in 1..MaxNodes}

IsTensor(x) == x.t = "tensor"
IsListOrTuple(x) == x.t \in {"list", "tuple"}

\* mutant: only x itself and the elements of x are moved, not what is nested deeper
RECURSIVE to_device_Shallow(_, _)
to_device_Shallow(x, device) ==
    IF device = NoDevice THEN x
    ELSE IF IsTensor(x) THEN [x EXCEPT !.dev = device]
    ELSE IF IsListOrTuple(x)
         THEN List([j \in 1..Len(x.items) |->
                      IF IsTensor(x.items[j]) THEN [x.items[j] EXCEPT !.dev = device]
                      ELSE x.items[j]])
    ELSE x

RECURSIVE to_device(_, _)
to_device(x, device) ==
    IF device = NoDevice THEN x
    ELSE IF IsTensor(x) THEN [x EXCEPT !.dev = device]
    ELSE IF IsListOrTuple(x)
         THEN List([j \in 1..Len(x.items) |-> to_device(x.items[j], device)])
    ELSE x

RECURSIVE smart_detach(_)
smart_detach(x) ==
    IF IsTensor(x) THEN [x EXCEPT !.grad = FALSE]
    ELSE IF IsListOrTuple(x)
         THEN List([j \in 1..Len(x.items) |-> smart_detach(x.items[j])])
    ELSE x

RECURSIVE smart_to_cpu(_)
smart_to_cpu(x) ==
    IF IsTensor(x) THEN [x EXCEPT !.dev = "cpu"]
    ELSE IF IsListOrTuple(x)
         THEN List([j \in 1..Len(x.items) |-> smart_to_cpu(x.items[j])])
    ELSE x

RECURSIVE smart_detach_cpu(_)
smart_detach_cpu(x) ==
    IF IsTensor(x) THEN [x EXCEPT !.grad = FALSE, !.dev = "cpu"]
    ELSE IF IsListOrTuple(x)
         THEN List([j \in 1..Len(x.items) |-> smart_detach_cpu(x.items[j])])
    ELSE x

TensorCall(fn, result) ==
    /\ ~tdone
    /\ tfn = fn
    /\ tres' = result
    /\ tdone' = TRUE
    /\ UNCHANGED <<learnerVars, lrVars, rngVars, jupyterVars, tfn, tx, tdev>>

ToDevice == TensorCall("to_device", to_device(tx, tdev))
SmartDetach == TensorCall("smart_detach", smart_detach(tx))
SmartToCpu == TensorCall("smart_to_cpu", smart_to_cpu(tx))
SmartDetachCpu == TensorCall("smart_detach_cpu", smart_detach_cpu(tx))

NextTensor == ToDevice \/ SmartDetach \/ SmartToCpu \/ SmartDetachCpu

IdleTensor ==
    /\ tfn = "none"
    /\ tx = Other
    /\ tdev = NoDevice
    /\ tres = Other
    /\ tdone = FALSE

\* ------------------ seeded_rng, seed0_worker
\* how many steps (draws, calls of seed0_worker) the block under seeded_rng has
\* at most
MaxDraws == 2

Generators == {"torch", "numpy", "python"}
\* a seed: the integer hi * 2**32 + lo, with lo < 2**32
Seed64(hi, lo) == [hi |-> hi, lo |-> lo]
\* seed % 2**32
Mod32(s) == Seed64(0, s.lo)
\* the state of a generator: the seed it was last seeded with and the number of
\* values drawn since. Drawing returns a value the state determines and moves
\* the generator to its next state, which it has not been in before
GenState(s, n) == [seed |-> s, n |-> n]
GenStates == {GenState(Seed64(0, 0), 0), GenState(Seed64(1, 0), 1)}
Drawn(s) == s
Advance(s) == GenState(s.seed, s.n + 1)
Seeds == {Some(0), Some(1)}
\* manual_seed / seed: the state of a generator is a function of the seed alone
SeedState(g, sd) == GenState(sd, 0)

\* the steps of a block: a draw from a generator, a call of seed0_worker
Blocks == UNION {[1..n -> Generators \cup {"seed0_worker"}] : n \in 0..MaxDraws}
Runs == {1, 2}
NoStates == [g \in Generators |-> GenState(Seed64(0, 0), 0)]

\* mutant: numpy's generator is left unseeded
Seeded_NotNumpy(gens, sd) ==
    [g \in Generators |-> IF g = "numpy" THEN gens[g] ELSE SeedState(g, Seed64(0, sd))]

\* torch.manual_seed(seed); np.random.seed(seed); random.seed(seed)
Seeded(gens, sd) == [g \in Generators |-> SeedState(g, Seed64(0, sd))]

\* torch.initial_seed(): the seed of torch's default generator
initial_seed(gens) == gens["torch"].seed

\* seed0_worker: numpy's and Python's generators are seeded with
\* torch.initial_seed() % 2**32, torch's is left alone
seed0_worker(gens) ==
    [g \in Generators |-> IF g = "torch" THEN gens[g]
                          ELSE SeedState(g, Mod32(initial_seed(gens)))]

RngFrame == UNCHANGED <<learnerVars, lrVars, tensorVars, jupyterVars, seed, block>>

\* the generator function up to its yield
SeededRngEnter(r) ==
    /\ runs[r].pc = "enter"
    /\ LET run == runs[r]
       IN runs' = [runs EXCEPT ![r] =
                     IF seed = None
                     THEN [run EXCEPT !.pc = "block"]
                     ELSE [run EXCEPT !.saved = run.gens,
                                      !.gens = Seeded(run.gens, seed.v),
                                      !.pc = "block"]]
    /\ RngFrame

\* the block draws its next value, from the generator it names
BlockDraws(r) ==
    /\ runs[r].pc = "block"
    /\ Len(runs[r].out) < Len(block)
    /\ block[Len(runs[r].out) + 1] \in Generators
    /\ LET run == runs[r]
           g == block[Len(run.out) + 1]
       IN runs' = [runs EXCEPT ![r] =
                     [run EXCEPT !.out = Append(run.out, <<g, Drawn(run.gens[g])>>),
                                 !.gens = [run.gens EXCEPT ![g] = Advance(run.gens[g])]]]
    /\ RngFrame

\* the block calls seed0_worker(worker_id), which returns None
Seed0Worker(r) ==
    /\ runs[r].pc = "block"
    /\ Len(runs[r].out) < Len(block)
    /\ block[Len(runs[r].out) + 1] = "seed0_worker"
    /\ LET run == runs[r]
       IN runs' = [runs EXCEPT ![r] =
                     [run EXCEPT !.out = Append(run.out, <<"seed0_worker", "None">>),
                                 !.gens = seed0_worker(run.gens)]]
    /\ RngFrame

\* the block ends and the generator function runs from its yield to its end
SeededRngExit(r) ==
    /\ runs[r].pc = "block"
    /\ Len(runs[r].out) = Len(block)
    /\ LET run == runs[r]
       IN runs' = [runs EXCEPT ![r] =
                     IF seed = None
                     THEN [run EXCEPT !.pc = "done"]
                     ELSE [run EXCEPT !.gens = run.saved, !.pc = "done"]]
    /\ RngFrame

NextRng ==
    \E r \in Runs :
        SeededRngEnter(r) \/ BlockDraws(r) \/ Seed0Worker(r) \/ SeededRngExit(r)

IdleRun == [prior |-> NoStates, gens |-> NoStates, saved |-> NoStates,
            out |-> <<>>, pc |-> "idle"]
IdleRng ==
    /\ seed = None
    /\ block = <<>>
    /\ runs = [r \in Runs |-> IdleRun]

\* ------------------ is_jupyter, isnotebook, markdown_if_jupyter
\* the shells get_ipython() can return, by the dotted path of their class (a
\* string, as the sequence of its characters) and the name of the class; a
\* plain interpreter has no get_ipython at all
Shell(kind, path, name) == [kind |-> kind, path |-> path, name |-> name]
\* ipykernel.zmqshell.ZMQInteractiveShell
ZmqShell ==
    Shell("zmq", <<"i", "p", "y", "k", "e", "r", "n", "e", "l", ".", "z", "m", "q", "s", "h", "e", "l", "l", ".", "Z", "M", "Q", "I", "n", "t", "e", "r", "a", "c", "t", "i", "v", "e", "S", "h", "e", "l", "l">>,
          "ZMQInteractiveShell")
\* pkg.myzmqshellx.Shell: a zmq shell subclassed in a package of the user
CustomZmqShell ==
    Shell("zmq", <<"p", "k", "g", ".", "m", "y", "z", "m", "q", "s", "h", "e", "l", "l", "x", ".", "S", "h", "e", "l", "l">>,
          "Shell")
\* IPython.terminal.interactiveshell.TerminalInteractiveShell
TerminalShell ==
    Shell("terminal", <<"I", "P", "y", "t", "h", "o", "n", ".", "t", "e", "r", "m", "i", "n", "a", "l", ".", "i", "n", "t", "e", "r", "a", "c", "t", "i", "v", "e", "s", "h", "e", "l", "l", ".", "T", "e", "r", "m", "i", "n", "a", "l", "I", "n", "t", "e", "r", "a", "c", "t", "i", "v", "e", "S", "h", "e", "l", "l">>,
          "TerminalInteractiveShell")
\* IPython.core.interactiveshell.InteractiveShell
OtherShell ==
    Shell("other", <<"I", "P", "y", "t", "h", "o", "n", ".", "c", "o", "r", "e", ".", "i", "n", "t", "e", "r", "a", "c", "t", "i", "v", "e", "s", "h", "e", "l", "l", ".", "I", "n", "t", "e", "r", "a", "c", "t", "i", "v", "e", "S", "h", "e", "l", "l">>,
          "InteractiveShell")
\* get_ipython() returns None: NoneType
NoShell == Shell("none", <<"N", "o", "n", "e", "T", "y", "p", "e">>, "NoneType")
Shells == {ZmqShell, CustomZmqShell, TerminalShell, OtherShell, NoShell}

\* get_ipython is not defined, raises, or returns a shell
Environments ==
    {[get_ipython |-> "undefined", shell |-> NoShell],
     [get_ipython |-> "raises", shell |-> NoShell]} \cup
    {[get_ipython |-> "returns", shell |-> sh] : sh \in Shells}

Strings == {"", "text", "# title"}

\* str(type(shell)) is "<class '" + path + "'>"
TypeStr(shell) == <<"<", "c", "l", "a", "s", "s", " ", "'">> \o shell.path \o <<"'", ">">>
\* word in str: word is a substring of str
Contains(str, word) ==
    \E j \in 1..(Len(str) - Len(word) + 1) : SubSeq(str, j, j + Len(word) - 1) = word
Zmqshell == <<"z", "m", "q", "s", "h", "e", "l", "l">>
Terminal == <<"t", "e", "r", "m", "i", "n", "a", "l">>

\* Python values of mixed types, by their repr
PyJupyter == "'jupyter'"
PyTrue == "True"
PyFalse == "False"
PyNone == "None"
Truthy(v) == v \in {PyJupyter, PyTrue}

JupFrame == UNCHANGED <<learnerVars, lrVars, tensorVars, rngVars>>
\* is_jupyter returns v: to its caller, the user or markdown_if_jupyter
IsJupyterReturns(v) ==
    jup' = IF jup.fn = "is_jupyter"
           THEN [jup EXCEPT !.ret = v, !.pc = "done"]
           ELSE [jup EXCEPT !.isj = v, !.pc = "if"]

\* markdown_if_jupyter calls is_jupyter()
MarkdownCallsIsJupyter ==
    /\ jup.fn = "markdown_if_jupyter" /\ jup.pc = "call"
    /\ jup' = [jup EXCEPT !.pc = "try"]
    /\ JupFrame

\* ipy_str = str(type(get_ipython()))
IsJupyterGetIpython ==
    /\ jup.fn \in {"is_jupyter", "markdown_if_jupyter"} /\ jup.pc = "try"
    /\ jup' = IF jup.env.get_ipython = "returns"
              THEN [jup EXCEPT !.ipy_str = TypeStr(jup.env.shell), !.pc = "zmqshell"]
              ELSE [jup EXCEPT !.pc = "except"]
    /\ JupFrame

\* if 'zmqshell' in ipy_str: return 'jupyter'
IsJupyterZmqshell ==
    /\ jup.pc = "zmqshell"
    /\ IF Contains(jup.ipy_str, Zmqshell)
       THEN IsJupyterReturns(PyJupyter)
       ELSE jup' = [jup EXCEPT !.pc = "terminal"]
    /\ JupFrame

\* if 'terminal' in ipy_str: return True; otherwise the function ends, which
\* returns None
IsJupyterTerminal ==
    /\ jup.pc = "terminal"
    /\ IF Contains(jup.ipy_str, Terminal)
       THEN IsJupyterReturns(PyTrue)
       ELSE IsJupyterReturns(PyNone)
    /\ JupFrame

\* except: return False
IsJupyterExcept ==
    /\ jup.pc = "except"
    /\ IsJupyterReturns(PyFalse)
    /\ JupFrame

\* if is_jupyter(): display(Markdown(string)); return None
MarkdownDisplays ==
    /\ jup.fn = "markdown_if_jupyter" /\ jup.pc = "if"
    /\ Truthy(jup.isj)
    /\ jup' = [jup EXCEPT !.shown = Append(jup.shown, jup.string),
                          !.ret = PyNone, !.pc = "done"]
    /\ JupFrame

\* else: return string
MarkdownReturnsString ==
    /\ jup.fn = "markdown_if_jupyter" /\ jup.pc = "if"
    /\ ~Truthy(jup.isj)
    /\ jup' = [jup EXCEPT !.ret = jup.string, !.pc = "done"]
    /\ JupFrame

\* isnotebook: the name of the shell's class decides; only NameError is caught
IsNotebook ==
    /\ jup.fn = "isnotebook" /\ jup.pc = "try"
    /\ jup' = CASE jup.env.get_ipython = "undefined" ->
                     [jup EXCEPT !.ret = PyFalse, !.pc = "done"]
                [] jup.env.get_ipython = "raises" ->
                     [jup EXCEPT !.exc = "Exception", !.pc = "raised"]
                [] OTHER ->
                     [jup EXCEPT !.ret = IF jup.env.shell.name = "ZMQInteractiveShell"
                                         THEN PyTrue ELSE PyFalse,
                                 !.pc = "done"]
    /\ JupFrame

\* sequence_to_table: display(Markdown(md)), in whatever environment; md is
\* the text sequence_to_markdown made of the sequence
SequenceToTable ==
    /\ jup.fn = "sequence_to_table" /\ jup.pc = "display"
    /\ jup' = [jup EXCEPT !.shown = Append(jup.shown, jup.string),
                          !.ret = PyNone, !.pc = "done"]
    /\ JupFrame

NextJupyter ==
    \/ MarkdownCallsIsJupyter \/ IsJupyterGetIpython \/ IsJupyterZmqshell
    \/ IsJupyterTerminal \/ IsJupyterExcept \/ MarkdownDisplays
    \/ MarkdownReturnsString \/ IsNotebook \/ SequenceToTable

IdleJup == [fn |-> "none", env |-> [get_ipython |-> "undefined", shell |-> NoShell],
            string |-> "", pc |-> "idle", ipy_str |-> <<>>, isj |-> PyNone,
            shown |-> <<>>, ret |-> PyNone, exc |-> "none"]
IdleJupyter == jup = IdleJup

\* no function with a call stack is running
IdleCalls ==
    /\ entry = "none"
    /\ stack = <<>>
    /\ exc = NoExc
    /\ raised = NoExc
    /\ status = "idle"

\* the user calls lr_finder(...), lr_finder_fn(...) or one_batch(...) on a model
\* and an optimizer
InitLr ==
    /\ IdleLearner /\ IdleTensor /\ IdleRng /\ IdleJupyter
    /\ entry \in {"lr_finder", "lr_finder_fn", "torch_tools.one_batch"}
    /\ args \in LrArgs
    /\ entry = "lr_finder_fn" => args.niter = 0 /\ ~args.return_best
    /\ entry = "torch_tools.one_batch" => args = NoLrArgs
    /\ entry # "lr_finder" => args.model_state_dict /\ args.optimizer_state_dict
    /\ ~args.optimizer_state_dict \/ entry # "lr_finder" => args.try_copy = "copy"
    /\ scheduler \in (IF entry = "torch_tools.one_batch" THEN BOOLEAN ELSE {FALSE})
    /\ opt \in Optimizers
    /\ lrf = [IdleLrf EXCEPT !.before = opt]
    /\ \E t \in (IF entry = "torch_tools.one_batch" THEN BOOLEAN ELSE {FALSE}) :
         stack = <<Frame(entry, IF entry = "lr_finder" THEN "begin"
                                ELSE IF entry = "lr_finder_fn" THEN "set_lr"
                                ELSE "call",
                         "none", 0, t)>>
    /\ exc = NoExc
    /\ raised = NoExc
    /\ status = "running"

SpecLr == InitLr /\ [][NextLr \/ Unwind]_vars

\* x and device are any value and any device, for each of the four functions
InitTensor ==
    /\ IdleLearner /\ IdleLr /\ IdleRng /\ IdleJupyter /\ IdleCalls
    /\ scheduler = FALSE
    /\ tfn \in {"to_device", "smart_detach", "smart_to_cpu", "smart_detach_cpu"}
    /\ tx \in Values
    /\ tdev \in (IF tfn = "to_device" THEN Devices \cup {NoDevice} ELSE {NoDevice})
    /\ tres = Other
    /\ tdone = FALSE

SpecTensor == InitTensor /\ [][NextTensor]_vars

\* the same block runs twice under the same seed, from any generator states
InitRng ==
    /\ IdleLearner /\ IdleLr /\ IdleTensor /\ IdleJupyter /\ IdleCalls
    /\ scheduler = FALSE
    /\ seed \in Seeds \cup {None}
    /\ block \in Blocks
    /\ \E p \in [Runs -> [Generators -> GenStates]] :
         runs = [r \in Runs |-> [IdleRun EXCEPT !.prior = p[r], !.gens = p[r],
                                                !.pc = "enter"]]

SpecRng == InitRng /\ [][NextRng]_vars

\* is_jupyter(), isnotebook(), markdown_if_jupyter(string) or
\* sequence_to_table(s) is called, in any environment
InitJupyter ==
    /\ IdleLearner /\ IdleLr /\ IdleTensor /\ IdleRng /\ IdleCalls
    /\ scheduler = FALSE
    /\ \E fn \in {"is_jupyter", "isnotebook", "markdown_if_jupyter", "sequence_to_table"},
          env \in Environments, string \in Strings :
         /\ fn \in {"is_jupyter", "isnotebook"} => string = ""
         /\ jup = [IdleJup EXCEPT !.fn = fn, !.env = env, !.string = string,
                                  !.pc = IF fn = "markdown_if_jupyter" THEN "call"
                                         ELSE IF fn = "sequence_to_table" THEN "display"
                                         ELSE "try"]

SpecJupyter == InitJupyter /\ [][NextJupyter]_vars

\* ---- the initial states: the user dispatches fit(...), one_epoch(dl, train)
\* or inference(batch) on a learner
DataLoaders == [given : {FALSE}, n : {0}] \cup [given : {TRUE}, n : 0..MaxBatches]

EntryFrames(e) ==
    CASE e = "fit" -> {Frame("fit", "for", "none", 0, FALSE)}
      [] e = "one_epoch" -> {Frame("one_epoch", "for", "dltrain", 0, t) : t \in BOOLEAN}
      [] e = "inference" -> {Frame("inference", "eval", "user", 0, FALSE)}

EntryArgs(e, frame) == IF e = "one_epoch" THEN <<frame.dl, frame.train>> ELSE <<>>

\* what hasattr(...) and callable(...) give for model.train, model.eval,
\* optimizer.train, optimizer.eval: any object may be the model or the optimizer
Modes == BOOLEAN \X BOOLEAN \X BOOLEAN \X BOOLEAN
\* a learner: whether it has a scheduler, whether it has an accelerator, and
\* the modes of its model and optimizer
Learners == {<<s, a, m>> : s \in BOOLEAN, a \in BOOLEAN, m \in Modes}
\* learners that between them have every flag both ways, the first a torch
\* model and optimizer with neither scheduler nor accelerator
LearnerSeq == <<<<FALSE, FALSE, <<TRUE, TRUE, FALSE, FALSE>>>>,
               <<TRUE, TRUE, <<FALSE, FALSE, TRUE, TRUE>>>>,
               <<TRUE, FALSE, <<TRUE, FALSE, FALSE, TRUE>>>>,
               <<FALSE, TRUE, <<FALSE, TRUE, TRUE, FALSE>>>>,
               <<TRUE, TRUE, <<TRUE, TRUE, TRUE, TRUE>>>>,
               <<FALSE, FALSE, <<FALSE, FALSE, FALSE, FALSE>>>>>>
SomeLearners ==
    {LearnerSeq[j] : j \in 1..(IF MaxLearners < Len(LearnerSeq) THEN MaxLearners
                               ELSE Len(LearnerSeq))}

InitLearner(entries, registries, every, learners) ==
    /\ IdleLr /\ IdleTensor /\ IdleRng /\ IdleJupyter
    /\ reg \in registries
    /\ entry \in entries
    /\ dls \in [{"dltrain", "dltest"} -> DataLoaders]
    /\ test_first \in BOOLEAN
    /\ test_every \in every
    /\ entry \in Events => reg[entry] = "default"
    /\ \E l \in learners :
         /\ scheduler = l[1]
         /\ accelerator = l[2]
         /\ model_has_train = l[3][1]
         /\ model_has_eval = l[3][2]
         /\ opt_has_train = l[3][3]
         /\ opt_has_eval = l[3][4]
    /\ entry = "one_epoch" =>
         /\ dls["dltrain"].given /\ dls["dltest"] = NoLoader
         /\ test_first = FALSE
         /\ test_every = 1
    /\ entry = "inference" =>
         /\ dls = [d \in {"dltrain", "dltest"} |-> NoLoader]
         /\ test_first = FALSE
         /\ test_every = 1
    /\ cur_epoch = 0
    /\ cur_batch = 0
    /\ total_epoch = 0
    /\ preds = NoPreds
    /\ \E f \in EntryFrames(entry) :
         /\ stack = <<f>>
         /\ log = <<Event(entry, 0, EntryArgs(entry, f))>>
    /\ exc = NoExc
    /\ raised = NoExc
    /\ status = "running"

NextOneBatch ==
    \/ OneBatchTrain \/ OneBatchToDevice \/ OneBatchForward \/ OneBatchGetLoss
    \/ OneBatchZeroGrad \/ OneBatchBackward \/ OneBatchOptimizerStep
    \/ OneBatchSchedulerStep \/ OneBatchReturn

NextOneEpoch == NextOneBatch \/ OneEpochBatch \/ OneEpochReturn

NextInference == InferenceEval \/ InferenceForward \/ InferenceReturn

NextFitBody ==
    \/ FitForNext \/ FitForStop \/ FitBeforeEpoch \/ FitEnterContext
    \/ FitTestFirst \/ FitTraining \/ FitTesting \/ FitTotalEpoch
    \/ FitExitContext \/ FitAfterEpoch

\* one epoch over a data loader, on the default callbacks; a framework call
\* may raise
InitEpoch == InitLearner({"one_epoch"}, {AllDefault}, {1}, Learners)
NextEpoch == NextOneEpoch \/ FrameworkRaises \/ CallbackRaises \/ Unwind
SpecEpoch == InitEpoch /\ [][NextEpoch]_vars

\* fit on the default callbacks, any arguments
InitFit == InitLearner({"fit"}, {AllDefault}, TestEveryValues, Learners)
NextFit == NextOneEpoch \/ NextFitBody \/ FitTestingZeroDivision \/ Unwind
SpecFit == InitFit /\ [][NextFit]_vars

\* fit, one_epoch and inference with the callback of one event replaced: any
\* learner for one_epoch and inference, some for fit
InitSwap ==
    \/ InitLearner({"one_epoch", "inference"}, Registries, {1}, Learners)
    \/ InitLearner({"fit"}, Registries, TestEveryValues \ {0}, SomeLearners)
NextSwap == NextOneEpoch \/ NextFitBody \/ NextInference \/ Unwind
SpecSwap == InitSwap /\ [][NextSwap]_vars

\* ------------------------------------------------- reading the event log
IsPrefix(s, t) == Len(s) <= Len(t) /\ SubSeq(t, 1, Len(s)) = s
Names(s) == [j \in 1..Len(s) |-> s[j].n]
Payloads(s) == [j \in 1..Len(s) |-> s[j].x]
IsEvent(i, name) == log[i].k = "event" /\ log[i].n = name

\* the first entry after i that is not made below entry i's callback
End(i) ==
    IF \E j \in (i + 1)..Len(log) : log[j].d <= log[i].d
    THEN CHOOSE j \in (i + 1)..Len(log) :
             /\ log[j].d <= log[i].d
             /\ \A m \in (i + 1)..(j - 1) : log[m].d > log[i].d
    ELSE Len(log) + 1
\* what the callback run for entry i dispatched and called, at any depth
Span(i) == SubSeq(log, i + 1, End(i) - 1)
\* the events the callback run for entry i dispatched itself
ChildEvents(i) == SelectSeq(Span(i), LAMBDA e : e.k = "event" /\ e.d = log[i].d + 1)
\* the callback run for entry i has not returned yet
Active(i) == End(i) = Len(log) + 1 /\ Len(stack) > log[i].d

\* the entries of the iteration of fit that starts with the before_epoch at i
EpochEnd(i) ==
    IF \E j \in (i + 1)..Len(log) : IsEvent(j, "before_epoch")
    THEN CHOOSE j \in (i + 1)..Len(log) :
             /\ IsEvent(j, "before_epoch")
             /\ \A m \in (i + 1)..(j - 1) : ~IsEvent(m, "before_epoch")
    ELSE Len(log) + 1
Epoch(i) == SubSeq(log, i, EpochEnd(i) - 1)
EpochDone(i) == \E j \in i..(EpochEnd(i) - 1) : IsEvent(j, "exit full_epoch")

\* ------------------------------------------------------------------ C1
ExpectedBatchEvents(train) ==
    <<"train", "forward", "get_loss">> \o
    (IF train THEN <<"zero_grad", "backward", "optimizer_step", "scheduler_step">>
     ELSE <<>>)

\* C1: every run of the default one_batch callback dispatches train, forward,
\* get_loss and then, exactly when its train flag is true, zero_grad, backward,
\* optimizer_step, scheduler_step: what a batch has dispatched so far is a
\* prefix of that sequence (each event at most once, in that order), a batch
\* that returned has dispatched all of it, and get_loss receives the
\* predictions of the model for the inputs forward got in the same batch.
C1_OneBatchSequence ==
    \A i \in 1..Len(log) :
        IsEvent(i, "one_batch") =>
            LET span == Span(i)
                ev == SelectSeq(span, LAMBDA e : e.k = "event" /\ e.d = log[i].d + 1)
                expected == ExpectedBatchEvents(log[i].x[2])
            IN  /\ IsPrefix(Names(ev), expected)
                /\ (~Active(i) /\ raised = NoExc) => Names(ev) = expected
                /\ \A j \in 1..Len(ev) :
                       ev[j].n = "get_loss" =>
                           /\ ev[j].x = <<ModelOut(log[i].x[1]), log[i].x[1]>>
                           /\ ev[j - 1].x = <<log[i].x[1]>>
                           /\ \E m \in 1..Len(span) :
                                  span[m] = Call("model", log[i].d + 2,
                                                 <<log[i].x[1], log[i].x[2]>>)

\* a training batch has run to its end, through all seven events, and the
\* next batch of the epoch is under way
C1_Witness ==
    /\ \E i \in 1..Len(log) :
           /\ IsEvent(i, "one_batch") /\ ~Active(i) /\ log[i].x[2]
           /\ Len(ChildEvents(i)) = 7
    /\ \E i \in 1..Len(log) :
           /\ IsEvent(i, "one_batch") /\ Active(i)
           /\ Len(ChildEvents(i)) = 3
    /\ raised = NoExc

\* ------------------------------------------------------------------ C2
\* the events fit itself dispatched, in order
FitEvents == SelectSeq(log, LAMBDA e : e.k = "event" /\ e.d = 1)
CountOf(s, name) == Cardinality({j \in 1..Len(s) : s[j].n = name})
Bracket(s, open, close) == SelectSeq(s, LAMBDA e : e.n \in {open, close})

\* C2: in every run of fit before_epoch and after_epoch strictly alternate,
\* starting with before_epoch; before_epoch is followed by entering the
\* full_epoch context and after_epoch follows leaving it; every one_epoch is
\* dispatched inside the context, after a before_epoch that no after_epoch
\* has followed yet; and when fit returns normally the two counts are equal.
C2_EpochBrackets ==
        LET f == FitEvents
            ba == Bracket(f, "before_epoch", "after_epoch")
        IN  /\ \A j \in 1..Len(ba) :
                   ba[j].n = IF j % 2 = 1 THEN "before_epoch" ELSE "after_epoch"
            /\ \A j \in 1..Len(f) :
                   /\ f[j].n = "enter full_epoch" => j > 1 /\ f[j - 1].n = "before_epoch"
                   /\ f[j].n = "after_epoch" => j > 1 /\ f[j - 1].n = "exit full_epoch"
                   /\ f[j].n = "exit full_epoch" =>
                          \E m \in 1..(j - 1) :
                              /\ f[m].n = "enter full_epoch"
                              /\ \A q \in (m + 1)..(j - 1) : f[q].n = "one_epoch"
                   /\ f[j].n = "one_epoch" =>
                          \E m \in 1..(j - 1) :
                              /\ f[m].n = "enter full_epoch"
                              /\ \A q \in (m + 1)..(j - 1) : f[q].n = "one_epoch"
            /\ status = "returned" =>
                   /\ CountOf(f, "before_epoch") = CountOf(f, "after_epoch")
                   /\ CountOf(f, "before_epoch") = total_epoch
                   /\ f # <<>> => f[Len(f)].n = "after_epoch"

\* fit returned after two iterations that ran epochs
C2_Witness ==
    /\ entry = "fit" /\ status = "returned"
    /\ CountOf(FitEvents, "after_epoch") = 2
    /\ CountOf(FitEvents, "one_epoch") >= 3

\* ------------------------------------------------------------------ C3
Multiple(c, every) == every # 0 /\ c % every = 0

ExpectedEpochs(c) ==
    (IF c = 0 /\ test_first /\ dls["dltest"].given
     THEN << <<"dltest", FALSE>> >> ELSE <<>>) \o
    (IF dls["dltrain"].given THEN << <<"dltrain", TRUE>> >> ELSE <<>>) \o
    (IF dls["dltest"].given /\ Multiple(c, test_every)
     THEN << <<"dltest", FALSE>> >> ELSE <<>>)

OneEpochsOf(i) == SelectSeq(Epoch(i), LAMBDA e : e.k = "event" /\ e.n = "one_epoch")

\* C3: in every iteration of fit the one_epoch calls are, in this order, the
\* test before the first epoch (dltest, train=False; exactly when cur_epoch is
\* 0, test_first is true and dltest is given), the training (dltrain,
\* train=True; exactly when dltrain is given) and the test (dltest,
\* train=False; exactly when dltest is given and cur_epoch is a multiple of
\* test_every). With test_every = 0 and dltest given the iteration ends after
\* the training with ZeroDivisionError and no test is run.
C3_EpochOrder ==
    \A i \in 1..Len(log) :
        IsEvent(i, "before_epoch") =>
            LET calls == Payloads(OneEpochsOf(i))
                expected == ExpectedEpochs(log[i].x[1])
            IN  /\ IsPrefix(calls, expected)
                /\ (EpochDone(i) \/ status = "raised") => calls = expected

\* an iteration with all three epochs has ended, and so has one whose test
\* was left out because cur_epoch is no multiple of test_every
C3_Witness ==
    /\ \E i \in 1..Len(log) :
           /\ IsEvent(i, "before_epoch") /\ EpochDone(i)
           /\ Len(OneEpochsOf(i)) = 3
    /\ \E i \in 1..Len(log) :
           /\ IsEvent(i, "before_epoch") /\ EpochDone(i)
           /\ log[i].x[1] # 0 /\ dls["dltest"].given
           /\ Len(OneEpochsOf(i)) = 1

\* ------------------------------------------------------------------ C4
ExpectedBatches(dl, train, n) == [j \in 1..n |-> <<Batch(dl, j - 1), train>>]

\* C4: the default one_epoch callback dispatches one_batch once per batch of
\* the loader, in the loader's order and with its own train flag; nothing is
\* dispatched for batch i+1 before batch i has returned (one call stack, one
\* callback running); and while batch i is processed learner.cur_batch is i.
C4_BatchesInOrder ==
    /\ \A i \in 1..Len(log) :
           IsEvent(i, "one_epoch") =>
               LET dl == log[i].x[1]
                   train == log[i].x[2]
                   got == ChildEvents(i)
               IN  /\ Names(got) = [j \in 1..Len(got) |-> "one_batch"]
                   /\ IsPrefix(Payloads(got), ExpectedBatches(dl, train, dls[dl].n))
                   /\ (~Active(i) /\ raised = NoExc) => Len(got) = dls[dl].n
    /\ \A k \in 1..Len(stack) :
           stack[k].fn = "one_batch" =>
               /\ cur_batch = stack[k].idx
               /\ k = Len(stack) /\ k > 1
               /\ stack[k - 1].fn = "one_epoch"
               /\ stack[k - 1].idx = stack[k].idx + 1
               /\ stack[k - 1].train = stack[k].train

\* the second batch of a loader is being processed after the first returned
C4_Witness ==
    /\ stack # <<>> /\ Top.fn = "one_batch" /\ Top.idx = 1 /\ Top.pc = "get_loss"
    /\ cur_batch = 1
    /\ \E i \in 1..Len(log) :
           IsEvent(i, "one_batch") /\ ~Active(i) /\ log[i].x[1] = Batch(Top.dl, 0)

\* ------------------------------------------------------------------ C5
\* the event whose default callback makes a call of the model, the loss
\* function, the optimizer or the scheduler
Owner(call) ==
    CASE call = "model" -> "forward"
      [] call = "loss_fn" -> "get_loss"
      [] call \in {"loss.backward", "accelerator.backward"} -> "backward"
      [] call = "optimizer.step" -> "optimizer_step"
      [] call = "optimizer.zero_grad" -> "zero_grad"
      [] call = "scheduler.step" -> "scheduler_step"
      [] call = "model.train" -> "train"
      [] call = "optimizer.train" -> "train"
      [] call = "model.eval" -> "eval"
      [] call = "optimizer.eval" -> "eval"
      [] OTHER -> "none"

\* every call of the model, the loss function, the optimizer or the scheduler
\* is made by the default callback of its event, run by the dispatch of that
\* event (the call follows the event, or another call of the same callback):
\* none is made when the callback of the event is replaced
CallsOnlyThroughDispatch ==
    \A i \in 1..Len(log) :
        (log[i].k = "call" /\ Owner(log[i].n) # "none") =>
            /\ i > 1
            /\ \/ /\ log[i - 1].k = "event"
                  /\ log[i - 1].n = Owner(log[i].n)
                  /\ log[i - 1].d = log[i].d - 1
               \/ /\ log[i - 1].k = "call"
                  /\ Owner(log[i - 1].n) = Owner(log[i].n)
                  /\ log[i - 1].d = log[i].d
            /\ reg[Owner(log[i].n)] = "default"

Sig(name, d) == [n |-> name, d |-> d]
Sigs(s) == [j \in 1..Len(s) |-> Sig(s[j].n, s[j].d)]

RECURSIVE Concat(_)
Concat(ss) == IF ss = <<>> THEN <<>> ELSE Head(ss) \o Concat(Tail(ss))

\* the events of a run on the default callbacks alone; d is the depth of the
\* callback that dispatches one_batch or one_epoch
DefaultBatch(train, d) ==
    <<Sig("one_batch", d)>> \o
    [j \in 1..Len(ExpectedBatchEvents(train)) |-> Sig(ExpectedBatchEvents(train)[j], d + 1)]
DefaultOneEpoch(call, d) ==
    <<Sig("one_epoch", d)>> \o
    Concat([j \in 1..dls[call[1]].n |-> DefaultBatch(call[2], d + 1)])
DefaultEpoch(c) ==
    <<Sig("before_epoch", 1), Sig("enter full_epoch", 1)>> \o
    Concat([j \in 1..Len(ExpectedEpochs(c)) |->
               DefaultOneEpoch(ExpectedEpochs(c)[j], 1)]) \o
    <<Sig("exit full_epoch", 1), Sig("after_epoch", 1)>>
\* the values epochs_iterator has yielded in this run
YieldedValues ==
    Payloads(SelectSeq(log, LAMBDA e : e.k = "event" /\ e.n = "before_epoch"))
DefaultTrace ==
    <<Sig(entry, 0)>> \o
    (CASE entry = "fit" ->
            Concat([j \in 1..Len(YieldedValues) |-> DefaultEpoch(YieldedValues[j][1])])
       [] entry = "one_epoch" ->
            Concat([j \in 1..dls[log[1].x[1]].n |-> DefaultBatch(log[1].x[2], 1)])
       [] OTHER -> <<Sig("eval", 1), Sig("forward", 1)>>)

EventsTo(s, depth) == SelectSeq(s, LAMBDA e : e.d <= depth)
LogEvents == Sigs(SelectSeq(log, LAMBDA e : e.k = "event"))

\* the events whose callback is replaced (at most one)
Replaced == {e \in Events : reg[e] # "default"}

\* the depth of the callback that dispatches event ev in a run of the entry
EventDepth(ev) ==
    CASE entry = "fit" -> (IF ev = "one_epoch" THEN 1 ELSE IF ev = "one_batch" THEN 2
                           ELSE 3)
      [] entry = "one_epoch" -> (IF ev = "one_batch" THEN 1 ELSE 2)
      [] OTHER -> 1

\* the depth the replaced callback's event is dispatched at: the events down
\* to it are dispatched by default callbacks, below it the replacement runs
SwapDepth == IF Replaced = {} THEN 3 ELSE EventDepth(CHOOSE e \in Replaced : TRUE)

\* the claim as stated: whichever callback is replaced, the events dispatched
\* are those of the run on the default callbacks
C5_AnySwapKeepsAllEvents ==
    /\ IsPrefix(LogEvents, DefaultTrace)
    /\ status = "returned" => LogEvents = DefaultTrace

\* C5 (amended): the default callbacks reach the model, the loss function, the
\* optimizer and the scheduler only through the dispatch of the event. With
\* the callback of one event replaced, the events dispatched down to the depth
\* of the replaced event are those of the run on the default callbacks, in the
\* same order, up to the end of the run if the replacement returns and up to
\* the dispatch of the replaced event if it raises, which ends the run with
\* its exception; below that depth the only events are those the replacement
\* dispatches itself.
C5_SwapKeepsEvents ==
    LET depth == SwapDepth
        events == EventsTo(LogEvents, depth)
        default == EventsTo(DefaultTrace, depth)
    IN  /\ CallsOnlyThroughDispatch
        /\ IsPrefix(events, default)
        /\ status = "returned" => events = default
        /\ \A i \in 1..Len(log) :
               (log[i].k = "event" /\ log[i].d > depth) =>
                   /\ log[i].n = "user_event"
                   /\ log[i - 1].k = "event"
                   /\ log[i - 1].n \in Events
                   /\ reg[log[i - 1].n] = "dispatching"
        /\ raised # NoExc =>
               /\ status \in {"running", "raised"}
               /\ log[Len(log)].k = "event"
               /\ log[Len(log)].n \in Events
               /\ reg[log[Len(log)].n] = "raising"

\* fit returned with the forward callback replaced by one that dispatches an
\* event of its own, after training batches: no call of the model was made
C5_Witness ==
    /\ entry = "fit" /\ status = "returned"
    /\ reg["forward"] = "dispatching"
    /\ scheduler /\ accelerator
    /\ \E i \in 1..Len(log) : IsEvent(i, "user_event") /\ log[i].d = 4
    /\ \E i \in 1..Len(log) : IsEvent(i, "optimizer_step")
    /\ \E i \in 1..Len(log) : log[i].k = "call" /\ log[i].n = "loss_fn"
    /\ \A i \in 1..Len(log) : ~(log[i].k = "call" /\ log[i].n = "model")

\* the training loop and lr_finder, with framework calls that raise
InitExc ==
    \/ InitLearner({"one_epoch", "inference"}, {AllDefault}, {1}, Learners)
    \/ InitLearner({"fit"}, {AllDefault}, TestEveryValues, SomeLearners)
    \/ InitLr
NextExc ==
    \/ NextOneEpoch \/ NextFitBody \/ NextInference \/ FitTestingZeroDivision
    \/ FrameworkRaises \/ CallbackRaises \/ EventRaises \/ NextLr \/ Unwind
SpecExc == InitExc /\ [][NextExc]_vars

\* ------------------------------------------------------------------ C6
\* the claim as stated: an exception raised during a call of fit, one_epoch,
\* one_batch, inference, lr_finder_fn or lr_finder ends the call with that
\* exception
C6_EveryExceptionPropagates ==
    (raised # NoExc /\ status # "running") => (status = "raised" /\ exc = raised)

\* the except clause of lr_finder has caught an exception
Caught == lrf.try_exit = "caught"

\* C6 (amended): of the training operations only lr_finder catches anything:
\* a KeyboardInterrupt raised inside its try (in an iteration) is caught and
\* never ends lr_finder, which goes on with the code after the try and then
\* returns normally, though not with return_best and no best model noted
\* (load_state_dict(None) raises). Every other exception raised in lr_finder,
\* and a KeyboardInterrupt raised before or after its try, ends lr_finder
\* with that exception, and an exception raised during fit, one_epoch,
\* one_batch, inference, Trainer.one_batch, lr_finder_fn or the one_batch
\* function ends the call with the same exception. Nothing else is ever
\* caught, and no exception in flight is replaced by another.
C6_ExceptionsPropagate ==
    /\ (raised # NoExc /\ ~Caught) =>
           /\ exc = raised
           /\ status \in {"running", "raised"}
    /\ (status = "raised") => (raised # NoExc /\ exc # NoExc /\ stack = <<>>)
    /\ (status = "returned") => (exc = NoExc /\ stack = <<>>)
    /\ Caught => (entry = "lr_finder" /\ raised = "KeyboardInterrupt")
    /\ (lrf.try_exit = "inside" /\ status # "running") =>
           (status = "raised" /\ exc # "KeyboardInterrupt")
    /\ (lrf.try_exit = "inside" /\ exc = "KeyboardInterrupt") =>
           (status = "running" /\ stack # <<>>)
    /\ (Caught /\ status = "returned") =>
           ~(args.return_best /\ lrf.best_model = "None")

\* a KeyboardInterrupt during the second batch of the second iteration of
\* lr_finder was caught: lr_finder has returned, the optimizer is left as the
\* interrupted batch left it
C6_Witness ==
    /\ entry = "lr_finder" /\ status = "returned"
    /\ Caught /\ raised = "KeyboardInterrupt"
    /\ lrf.iter = 1 /\ lrf.batches = 2
    /\ args.optimizer_state_dict /\ args.try_copy = "copy"
    /\ opt.lrs # lrf.before.lrs

\* ------------------------------------------------------------------ C7
\* C7: lr_finder_fn called with end and max_increase both None raises
\* ValueError without running a batch and leaves the learning rate of every
\* parameter group as it was before the call.
C7_ValueErrorLeavesLr ==
    (entry = "lr_finder_fn" /\ raised = "ValueError") =>
        /\ lrf.batches = 0
        /\ opt.lrs = lrf.before.lrs


\* ---- what a result of the tensor helpers is read for
RECURSIVE DetachedOnCpu(_, _)
\* r is x with every tensor detached and on the CPU, everything else as it was
DetachedOnCpu(x, r) ==
    IF IsTensor(x) THEN IsTensor(r) /\ r.dev = "cpu" /\ ~r.grad
    ELSE IF IsListOrTuple(x)
         THEN /\ IsListOrTuple(r)
              /\ Len(r.items) = Len(x.items)
              /\ \A j \in 1..Len(x.items) : DetachedOnCpu(x.items[j], r.items[j])
    ELSE r = x

RECURSIVE MovedTo(_, _, _)
\* r is x with every tensor on device and otherwise the same tensor, every list
\* or tuple of the same length and order, everything else as it was
MovedTo(x, r, device) ==
    IF IsTensor(x) THEN IsTensor(r) /\ r.dev = device /\ r.grad = x.grad
    ELSE IF IsListOrTuple(x)
         THEN /\ IsListOrTuple(r)
              /\ Len(r.items) = Len(x.items)
              /\ \A j \in 1..Len(x.items) : MovedTo(x.items[j], r.items[j], device)
    ELSE r = x

\* C8 (as stated): each of smart_detach, smart_to_cpu and smart_detach_cpu returns
\* its argument with every tensor, at any depth of lists and tuples, both detached
\* from the gradient graph and on the CPU, and every non-tensor element unchanged.
C8_EachDetachesAndMovesToCpu ==
    (tdone /\ tfn \in {"smart_detach", "smart_to_cpu", "smart_detach_cpu"}) =>
        DetachedOnCpu(tx, tres)

\* C9: to_device(x, device) returns x with every tensor at any depth of lists and
\* tuples on device, every element that is neither a tensor nor a list or tuple
\* unchanged, and the number and order of the elements of every level kept; with
\* device None it returns x itself.
C9_ToDeviceMovesEveryTensor ==
    (tdone /\ tfn = "to_device") =>
        IF tdev = NoDevice THEN tres = tx ELSE MovedTo(tx, tres, tdev)

\* to_device has moved a tensor nested two levels deep, next to a non-tensor
C9_Witness ==
    /\ tdone /\ tfn = "to_device" /\ tdev = "cuda"
    /\ tx = Container("tuple", <<Other, List(<<Tensor("cpu", TRUE)>>)>>)
    /\ tres = List(<<Other, List(<<Tensor("cuda", TRUE)>>)>>)

\* C10: under seeded_rng with a seed that is not None, two executions of the same
\* block draw the same values from torch, numpy and Python's random, whatever
\* the states of the generators before: at any moment the draws of one execution
\* are a prefix of the draws of the other, and two finished executions have drawn
\* the same sequence, one value for each draw of the block.
C10_SeededBlockIsDeterministic ==
    seed # None =>
        /\ IsPrefix(runs[1].out, runs[2].out) \/ IsPrefix(runs[2].out, runs[1].out)
        /\ (runs[1].pc = "done" /\ runs[2].pc = "done") =>
               /\ runs[1].out = runs[2].out
               /\ Len(runs[1].out) = Len(block)

\* both executions are over, they started from generator states that differ in
\* every generator, and the block drew from numpy and from another generator
C10_Witness ==
    /\ seed # None
    /\ runs[1].pc = "done" /\ runs[2].pc = "done"
    /\ \A g \in Generators : runs[1].prior[g] # runs[2].prior[g]
    /\ Len(block) = MaxDraws
    /\ \E j \in 1..Len(block) : block[j] = "numpy"
    /\ \E j \in 1..Len(block) : block[j] \in Generators \ {"numpy"}
    /\ runs[1].out = runs[2].out /\ Len(runs[1].out) = Len(block)


\* ---- what the environment is, whatever the code reads of it
InJupyter == jup.env.get_ipython = "returns" /\ jup.env.shell.kind = "zmq"
InTerminal == jup.env.get_ipython = "returns" /\ jup.env.shell.kind = "terminal"

\* C11 (as stated): is_jupyter() returns 'jupyter' in a Jupyter (zmq) shell, True
\* in a terminal IPython shell and False in every other environment, also when
\* get_ipython exists and returns a shell of another type or None.
C11_IsJupyterOneOfThree ==
    (jup.fn = "is_jupyter" /\ jup.pc = "done") =>
        jup.ret = (IF InJupyter THEN PyJupyter
                   ELSE IF InTerminal THEN PyTrue
                   ELSE PyFalse)

\* C12 (as stated): markdown_if_jupyter(string) displays the string and returns
\* None exactly in a Jupyter environment; in every other environment it
\* displays nothing and returns the string.
C12_MarkdownOnlyInJupyter ==
    (jup.fn = "markdown_if_jupyter" /\ jup.pc = "done") =>
        IF InJupyter
        THEN jup.shown = <<jup.string>> /\ jup.ret = PyNone
        ELSE jup.shown = <<>> /\ jup.ret = jup.string


\* ---- the backups lr_finder holds during an iteration
BackupHeld == entry = "lr_finder" /\ stack # <<>> /\ stack[1].pc = "in_try"

====
